---- MODULE Spec2Model ----
(***************************************************************************)
(* Model of FileShareApp (src/File/app.py): a Flask application whose      *)
(* handlers run on concurrent request threads over two pieces of shared    *)
(* state, the upload folder and the in-memory shared_links dictionary.     *)
(*                                                                         *)
(* File names are sequences of one-character strings.  Time is counted in  *)
(* days; datetime.now() reads the variable now.  A file's content is       *)
(* represented by its size.  Every dictionary operation and every file     *)
(* system call is one atomic step; a thread can be preempted between any   *)
(* two of them.                                                            *)
(***************************************************************************)
EXTENDS Integers, Sequences, FiniteSets, TLC

\* ------------------------------------------------------------------ bounds
MaxThreads == 2
MaxTokens == 2
MaxHash == 2
MaxTicks == 2
MaxRequests == 3
max_file_size == 3

\* ------------------------------------------------------- program constants
TTL == 7
MultipartOverhead == 1

Threads == 1..MaxThreads
Tokens == 1..MaxTokens
Hashes == 1..MaxHash
Sizes == 1..(max_file_size + 1)

\* the original file names a client sends, and the empty file name
OriginalNames == { <<"a", ".", "t">> }
NoName == << >>

\* ------------------------------------------------------------ os.path
\* largest index of c in s, 0 when absent (str.rfind, 1-based)
RFind(s, c) ==
  LET I == { i \in 1..Len(s) : s[i] = c }
  IN IF I = {} THEN 0 ELSE CHOOSE i \in I : \A j \in I : j <= i

\* os.path.splitext: the extension starts at the last dot of the last path
\* component, unless that component has only dots before it
splitext(p) ==
  LET sepIndex == RFind(p, "/")
      dotIndex == RFind(p, ".")
      lead == { i \in (sepIndex + 1)..(dotIndex - 1) : p[i] # "." }
  IN IF dotIndex > sepIndex /\ lead # {}
       THEN << SubSeq(p, 1, dotIndex - 1), SubSeq(p, dotIndex, Len(p)) >>
       ELSE << p, << >> >>

\* the ten hex digits of the digest are one symbol
HashSym(h) == IF h = 1 THEN "1" ELSE IF h = 2 THEN "2" ELSE "3"

\* _generate_unique_filename, for the digest h the random bytes produce
GenerateUniqueFilename(original_filename, h) ==
  LET name == splitext(original_filename)[1]
      ext == splitext(original_filename)[2]
  IN name \o << "_", HashSym(h) >> \o ext

StoredNames == { GenerateUniqueFilename(o, h) : o \in OriginalNames, h \in Hashes }

\* ------------------------------------------------------------------- state
VARIABLES
  fs,            \* upload folder: stored name -> size of the file
  shared_links,  \* self.shared_links: token -> link info
  now,           \* the wall clock read by datetime.now()
  issued,        \* every value uuid.uuid4() has returned so far
  pc,            \* per thread: the statement it executes next
  op,            \* per thread: the handler it runs
  filename,      \* per thread: the handler's filename
  share_id,      \* per thread: the handler's share_id
  link_info,     \* per thread: shared_download's link_info
  created_at,    \* per thread: the value of 'created_at' in share_file
  expires_at,    \* per thread: the value of 'expires_at' in share_file
  upsize,        \* per thread: the size of the file being uploaded
  files,         \* per thread: the names list_files still has to visit
  file_details,  \* per thread: list_files' file_details
  resp,          \* per thread: the response of the finished request
  answered410,   \* history: tokens for which a 410 was answered
  nreq,          \* history: the number of requests received so far
  nticks         \* history: the number of times the clock has advanced

vars == << fs, shared_links, now, issued, pc, op, filename, share_id,
           link_info, created_at, expires_at, upsize, files, file_details,
           resp, answered410, nreq, nticks >>

shared == << fs, shared_links, now, issued, answered410, nticks >>

\* the values a handler computes on its way
temps == << link_info, created_at, expires_at, upsize, files, file_details >>


NoToken == 0
NoTime == -1
NoLink == [filename |-> NoName, created_at |-> NoTime, expires_at |-> NoTime]
NoResp == [status |-> 0, desc |-> "", name |-> NoName, body |-> 0, items |-> {}]

Resp(status, desc) ==
  [status |-> status, desc |-> desc, name |-> NoName, body |-> 0, items |-> {}]

\* send_file(path, as_attachment=True): the file's name and bytes
Attachment(name, body) ==
  [status |-> 200, desc |-> "attachment", name |-> name, body |-> body, items |-> {}]

exists(name) == name \in DOMAIN fs

\* the dictionary d without key k
DictDel(d, k) == [ x \in (DOMAIN d) \ {k} |-> d[x] ]

\* the dictionary d with d[k] = v
DictSet(d, k, v) == [ x \in (DOMAIN d) \cup {k} |-> IF x = k THEN v ELSE d[x] ]

\* the upload folder may hold files of an earlier run (os.makedirs exist_ok)
EmptyDict == [ x \in {} |-> 0 ]

InitialFolders ==
  { EmptyDict } \cup
  { DictSet(EmptyDict, GenerateUniqueFilename(o, 1), 1) : o \in OriginalNames }

Init ==
  /\ fs \in InitialFolders
  /\ shared_links = EmptyDict
  /\ now = 0
  /\ issued = {}
  /\ pc = [p \in Threads |-> "idle"]
  /\ op = [p \in Threads |-> "none"]
  /\ filename = [p \in Threads |-> NoName]
  /\ share_id = [p \in Threads |-> NoToken]
  /\ link_info = [p \in Threads |-> NoLink]
  /\ created_at = [p \in Threads |-> NoTime]
  /\ expires_at = [p \in Threads |-> NoTime]
  /\ upsize = [p \in Threads |-> 0]
  /\ files = [p \in Threads |-> {}]
  /\ file_details = [p \in Threads |-> {}]
  /\ resp = [p \in Threads |-> NoResp]
  /\ answered410 = {}
  /\ nreq = 0
  /\ nticks = 0

\* --------------------------------------------------------------- helpers
\* thread p is at the statement label of a request in progress
At(p, label) ==
  /\ pc[p] = label
  /\ UNCHANGED << nreq, op >>

\* thread p, which is between two requests, receives a request for handler
Begin(p, handler) ==
  /\ pc[p] \in {"idle", "done"}
  /\ nreq < MaxRequests
  /\ nreq' = nreq + 1
  /\ op' = [op EXCEPT ![p] = handler]

\* the handler returns or aborts with response r; its frame is dropped
Finish(p, r) ==
  /\ pc' = [pc EXCEPT ![p] = "done"]
  /\ resp' = [resp EXCEPT ![p] = r]
  /\ filename' = [filename EXCEPT ![p] = NoName]
  /\ link_info' = [link_info EXCEPT ![p] = NoLink]
  /\ created_at' = [created_at EXCEPT ![p] = NoTime]
  /\ expires_at' = [expires_at EXCEPT ![p] = NoTime]
  /\ upsize' = [upsize EXCEPT ![p] = 0]
  /\ files' = [files EXCEPT ![p] = {}]
  /\ file_details' = [file_details EXCEPT ![p] = {}]

\* the handler goes on at the statement label
Goto(p, label) ==
  /\ pc' = [pc EXCEPT ![p] = label]
  /\ resp' = [resp EXCEPT ![p] = NoResp]

\* flash(...) then redirect(url_for('list_files'))
Redirect(msg) == Resp(302, msg)

\* ---------------------------------------------------------------- upload
\* the answer to an upload refused for its size; the record keeps the size
\* of the file that was refused
Rejected(status, desc, size) == [Resp(status, desc) EXCEPT !.body = size]

\* an upload that accepts a file of any size
UploadRequestNoLimit(p, has_file, original_filename, size, h) ==
  /\ Begin(p, "upload")
  /\ share_id' = [share_id EXCEPT ![p] = NoToken]
  /\ IF ~has_file
       THEN /\ Finish(p, Resp(400, "No file part"))
     ELSE IF original_filename = NoName
       THEN /\ Finish(p, Resp(400, "No selected file"))
     ELSE /\ filename' = [filename EXCEPT ![p] =
                            GenerateUniqueFilename(original_filename, h)]
          /\ upsize' = [upsize EXCEPT ![p] = size]
          /\ Goto(p, "up_save")
          /\ UNCHANGED << link_info, created_at, expires_at, files,
                          file_details >>
  /\ UNCHANGED shared

\* lines 46-69: the request arrives, is validated, and the stored name is
\* derived; h is the digest of the 32 random bytes.  MAX_CONTENT_LENGTH
\* (line 24) makes request.files (line 48) answer 413 for a body, the file
\* and its multipart framing, longer than max_file_size
UploadRequest(p, has_file, original_filename, size, h) ==
  /\ Begin(p, "upload")
  /\ share_id' = [share_id EXCEPT ![p] = NoToken]
  /\ IF has_file /\ size + MultipartOverhead > max_file_size
       THEN /\ Finish(p, Rejected(413, "Request Entity Too Large", size))
     ELSE IF ~has_file
       THEN /\ Finish(p, Resp(400, "No file part"))
     ELSE IF original_filename = NoName
       THEN /\ Finish(p, Resp(400, "No selected file"))
     ELSE IF size > max_file_size
       THEN /\ Finish(p, Rejected(400, "File too large", size))
     ELSE /\ filename' = [filename EXCEPT ![p] =
                            GenerateUniqueFilename(original_filename, h)]
          /\ upsize' = [upsize EXCEPT ![p] = size]
          /\ Goto(p, "up_save")
          /\ UNCHANGED << link_info, created_at, expires_at, files,
                          file_details >>
  /\ UNCHANGED shared

\* lines 72-77: file.save(filepath) creates or truncates the file
UploadSave(p) ==
  /\ At(p, "up_save")
  /\ fs' = DictSet(fs, filename[p], upsize[p])
  /\ Finish(p, Redirect("uploaded successfully"))
  /\ UNCHANGED << shared_links, now, nticks, issued, answered410, share_id >>

\* -------------------------------------------------------------- download
\* a download that removes the file it has sent
DownloadConsuming(p, name) ==
  /\ Begin(p, "download")
  /\ share_id' = [share_id EXCEPT ![p] = NoToken]
  /\ IF exists(name)
       THEN /\ Finish(p, Attachment(name, fs[name]))
            /\ fs' = DictDel(fs, name)
       ELSE /\ Finish(p, Redirect("File not found"))
            /\ UNCHANGED fs
  /\ UNCHANGED << shared_links, now, issued, answered410, nticks >>

\* lines 79-88
Download(p, name) ==
  /\ Begin(p, "download")
  /\ share_id' = [share_id EXCEPT ![p] = NoToken]
  /\ IF exists(name)
       THEN Finish(p, Attachment(name, fs[name]))
       ELSE Finish(p, Redirect("File not found"))
  /\ UNCHANGED shared

\* ----------------------------------------------------------- delete_file
\* lines 90-97: the existence check
DeleteExists(p, name) ==
  /\ Begin(p, "delete_file")
  /\ share_id' = [share_id EXCEPT ![p] = NoToken]
  /\ IF ~exists(name)
       THEN Finish(p, Redirect("File not found"))
       ELSE /\ filename' = [filename EXCEPT ![p] = name]
            /\ Goto(p, "del_remove")
            /\ UNCHANGED temps
  /\ UNCHANGED shared

\* delete_file that also drops the links to the file it removes
DeleteRemoveCascade(p) ==
  /\ At(p, "del_remove")
  /\ IF exists(filename[p])
       THEN /\ fs' = DictDel(fs, filename[p])
            /\ shared_links' =
                 [ t \in { x \in DOMAIN shared_links :
                             shared_links[x].filename # filename[p] }
                     |-> shared_links[t] ]
            /\ Finish(p, Redirect("deleted successfully"))
       ELSE /\ UNCHANGED << fs, shared_links >>
            /\ Finish(p, Redirect("Error deleting file"))
  /\ UNCHANGED << now, nticks, issued, answered410, share_id >>

\* delete_file without the try/except around os.remove
DeleteRemoveUncaught(p) ==
  /\ At(p, "del_remove")
  /\ IF exists(filename[p])
       THEN /\ fs' = DictDel(fs, filename[p])
            /\ Finish(p, Redirect("deleted successfully"))
       ELSE /\ UNCHANGED fs
            /\ Finish(p, Resp(500, "FileNotFoundError"))
  /\ UNCHANGED << shared_links, now, nticks, issued, answered410, share_id >>

\* lines 99-109: os.remove; its FileNotFoundError is caught by the handler
DeleteRemove(p) ==
  /\ At(p, "del_remove")
  /\ IF exists(filename[p])
       THEN /\ fs' = DictDel(fs, filename[p])
            /\ Finish(p, Redirect("deleted successfully"))
       ELSE /\ UNCHANGED fs
            /\ Finish(p, Redirect("Error deleting file"))
  /\ UNCHANGED << shared_links, now, nticks, issued, answered410, share_id >>

\* ------------------------------------------------------------ share_file
\* uuid.uuid4(): a value it has not returned before; share ids are opaque,
\* so the k-th value it returns is called k
uuid4 == Cardinality(issued) + 1

\* share_file without the existence check
ShareExistsUnchecked(p, name) ==
  /\ Begin(p, "share_file")
  /\ uuid4 \in Tokens
  /\ filename' = [filename EXCEPT ![p] = name]
  /\ share_id' = [share_id EXCEPT ![p] = uuid4]
  /\ issued' = issued \cup {uuid4}
  /\ Goto(p, "sf_created")
  /\ UNCHANGED temps
  /\ UNCHANGED << fs, shared_links, now, nticks, answered410 >>

\* lines 111-120: the existence check, then the new share id
ShareExists(p, name) ==
  /\ Begin(p, "share_file")
  /\ IF ~exists(name)
       THEN /\ Finish(p, Redirect("File not found"))
            /\ share_id' = [share_id EXCEPT ![p] = NoToken]
            /\ UNCHANGED issued
       ELSE /\ uuid4 \in Tokens
            /\ filename' = [filename EXCEPT ![p] = name]
            /\ share_id' = [share_id EXCEPT ![p] = uuid4]
            /\ issued' = issued \cup {uuid4}
            /\ Goto(p, "sf_created")
            /\ UNCHANGED temps
  /\ UNCHANGED << fs, shared_links, now, nticks, answered410 >>

\* line 125: 'created_at': datetime.now()
ShareCreatedAt(p) ==
  /\ At(p, "sf_created")
  /\ created_at' = [created_at EXCEPT ![p] = now]
  /\ Goto(p, "sf_expires")
  /\ UNCHANGED << shared, filename, share_id, link_info, expires_at, upsize,
                  files, file_details >>

\* line 126: 'expires_at': datetime.now() + timedelta(days=7)
ShareExpiresAt(p) ==
  /\ At(p, "sf_expires")
  /\ expires_at' = [expires_at EXCEPT ![p] = now + TTL]
  /\ Goto(p, "sf_store")
  /\ UNCHANGED << shared, filename, share_id, link_info, created_at, upsize,
                  files, file_details >>

\* an entry that does not name the file whose existence was checked
NewLinkUnnamed(p) ==
  [filename |-> NoName, created_at |-> created_at[p],
   expires_at |-> expires_at[p]]

\* the dictionary share_file stores under the new share id
NewLink(p) ==
  [filename |-> filename[p], created_at |-> created_at[p],
   expires_at |-> expires_at[p]]

\* a store that rebuilds the dictionary with the new link alone
StoreLinkAlone(links, t, link) == [ x \in {t} |-> link ]

\* self.shared_links[share_id] = link
StoreLink(links, t, link) == DictSet(links, t, link)

\* line 123: self.shared_links[share_id] = {...}; lines 130-136: the page
ShareStore(p) ==
  /\ At(p, "sf_store")
  /\ shared_links' = StoreLink(shared_links, share_id[p], NewLink(p))
  /\ Finish(p, [Resp(200, "share.html") EXCEPT !.name = filename[p],
                                               !.body = share_id[p]])
  /\ UNCHANGED << fs, now, nticks, issued, answered410, share_id >>

\* ------------------------------------------------------- shared_download
\* shared_download without the membership test
SharedLookupUnchecked(p, t) ==
  /\ Begin(p, "shared_download")
  /\ share_id' = [share_id EXCEPT ![p] = t]
  /\ Goto(p, "sd_get")
  /\ UNCHANGED << filename, temps >>
  /\ UNCHANGED shared

\* lines 138-142: if share_id not in self.shared_links: abort(404)
SharedLookup(p, t) ==
  /\ Begin(p, "shared_download")
  /\ share_id' = [share_id EXCEPT ![p] = t]
  /\ IF t \notin DOMAIN shared_links
       THEN Finish(p, Resp(404, "Invalid or expired sharing link"))
       ELSE Goto(p, "sd_get") /\ UNCHANGED << filename, temps >>
  /\ UNCHANGED shared

\* line 144: link_info = self.shared_links[share_id]; a missing key raises
\* KeyError, which no handler catches
SharedGet(p) ==
  /\ At(p, "sd_get")
  /\ IF share_id[p] \in DOMAIN shared_links
       THEN /\ link_info' = [link_info EXCEPT ![p] = shared_links[share_id[p]]]
            /\ Goto(p, "sd_expiry")
            /\ UNCHANGED << filename, created_at, expires_at, upsize,
                            files, file_details >>
       ELSE Finish(p, Resp(500, "KeyError"))
  /\ UNCHANGED << shared, share_id >>

\* an expiry test that never finds a link expired
ExpiredNever(t, link) == FALSE

\* an expiry test that already fails at the instant of expiry
ExpiredAtInstant(t, link) == t >= link.expires_at

\* line 147: datetime.now() > link_info['expires_at']
Expired(t, link) == t > link.expires_at

SharedExpiry(p) ==
  /\ At(p, "sd_expiry")
  /\ IF Expired(now, link_info[p])
       THEN Goto(p, "sd_del")
       ELSE Goto(p, "sd_send")
  /\ UNCHANGED << shared, filename, share_id, temps >>

\* an expiry that leaves the entry in the dictionary
DelLinkKept(links, t) == links

\* an expiry that drops every link to the expired link's file
DelLinkOfFile(links, t) ==
  [ x \in { y \in DOMAIN links : links[y].filename # links[t].filename }
      |-> links[x] ]

\* the dictionary after del self.shared_links[share_id]
DelLink(links, t) == DictDel(links, t)

\* lines 148-149: del self.shared_links[share_id], then abort(410); a
\* missing key raises KeyError, which no handler catches
SharedDel(p) ==
  /\ At(p, "sd_del")
  /\ IF share_id[p] \in DOMAIN shared_links
       THEN /\ shared_links' = DelLink(shared_links, share_id[p])
            /\ answered410' = answered410 \cup {share_id[p]}
            /\ Finish(p, Resp(410, "Sharing link has expired"))
       ELSE /\ UNCHANGED << shared_links, answered410 >>
            /\ Finish(p, Resp(500, "KeyError"))
  /\ UNCHANGED << fs, now, nticks, issued, share_id >>

\* shared_download that drops the link when its file is gone
SharedSendEvicting(p) ==
  /\ At(p, "sd_send")
  /\ IF exists(link_info[p].filename)
       THEN /\ Finish(p, Attachment(link_info[p].filename,
                                    fs[link_info[p].filename]))
            /\ UNCHANGED shared_links
       ELSE /\ Finish(p, Resp(404, "File not found"))
            /\ shared_links' = DictDel(shared_links, share_id[p])
  /\ UNCHANGED << fs, now, issued, answered410, nticks, share_id >>

\* lines 151-158: send_file, or abort(404) on FileNotFoundError
SharedSend(p) ==
  /\ At(p, "sd_send")
  /\ IF exists(link_info[p].filename)
       THEN Finish(p, Attachment(link_info[p].filename,
                                 fs[link_info[p].filename]))
       ELSE Finish(p, Resp(404, "File not found"))
  /\ UNCHANGED << shared, share_id >>

\* ------------------------------------------------------------ list_files
\* lines 160-163: files = os.listdir(...); file_details = []
ListDir(p) ==
  /\ Begin(p, "list_files")
  /\ share_id' = [share_id EXCEPT ![p] = NoToken]
  /\ files' = [files EXCEPT ![p] = DOMAIN fs]
  /\ file_details' = [file_details EXCEPT ![p] = {}]
  /\ Goto(p, "ls_loop")
  /\ UNCHANGED << shared, filename, link_info, created_at, expires_at,
                  upsize >>

\* lines 164-170: one iteration; os.path.getsize raises FileNotFoundError
\* for a file removed since the enumeration, which no handler catches
ListGetsize(p, name) ==
  /\ At(p, "ls_loop")
  /\ name \in files[p]
  /\ IF exists(name)
       THEN /\ files' = [files EXCEPT ![p] = @ \ {name}]
            /\ file_details' = [file_details EXCEPT ![p] =
                                  @ \cup {[name |-> name, size |-> fs[name]]}]
            /\ Goto(p, "ls_loop")
            /\ UNCHANGED << filename, link_info, created_at, expires_at,
                            upsize >>
       ELSE Finish(p, Resp(500, "FileNotFoundError"))
  /\ UNCHANGED << shared, share_id >>

\* line 171: render_template('files.html', files=file_details)
ListRender(p) ==
  /\ At(p, "ls_loop")
  /\ files[p] = {}
  /\ Finish(p, [Resp(200, "files.html") EXCEPT !.items = file_details[p]])
  /\ UNCHANGED << shared, share_id >>

\* ------------------------------------------------------------ environment
\* the clock is read again a day later, or the lifetime of a link later
Delays == { 1, TTL }

\* time passes
Tick(d) ==
  /\ nticks < MaxTicks
  /\ nticks' = nticks + 1
  /\ now' = now + d
  /\ UNCHANGED << nreq, fs, shared_links, issued, answered410, pc, op,
                  filename, share_id, link_info, created_at, expires_at,
                  upsize, files, file_details, resp >>

Next ==
  \/ \E p \in Threads, has_file \in BOOLEAN,
        o \in OriginalNames \cup {NoName}, size \in Sizes, h \in Hashes :
       UploadRequest(p, has_file, o, size, h)
  \/ \E p \in Threads : UploadSave(p)
  \/ \E p \in Threads, name \in StoredNames : Download(p, name)
  \/ \E p \in Threads, name \in StoredNames : DeleteExists(p, name)
  \/ \E p \in Threads : DeleteRemove(p)
  \/ \E p \in Threads, name \in StoredNames : ShareExists(p, name)
  \/ \E p \in Threads : ShareCreatedAt(p)
  \/ \E p \in Threads : ShareExpiresAt(p)
  \/ \E p \in Threads : ShareStore(p)
  \/ \E p \in Threads, t \in Tokens : SharedLookup(p, t)
  \/ \E p \in Threads : SharedGet(p)
  \/ \E p \in Threads : SharedExpiry(p)
  \/ \E p \in Threads : SharedDel(p)
  \/ \E p \in Threads : SharedSend(p)
  \/ \E p \in Threads : ListDir(p)
  \/ \E p \in Threads, name \in StoredNames : ListGetsize(p, name)
  \/ \E p \in Threads : ListRender(p)
  \/ \E d \in Delays : Tick(d)

Spec == Init /\ [][Next]_vars

TypeOK ==
  /\ DOMAIN fs \subseteq StoredNames
  /\ DOMAIN shared_links \subseteq issued
  /\ issued \subseteq Tokens
  /\ now \in 0..(MaxTicks * TTL)

\* ============================================================ properties
\* thread p takes the step that leaves statement label
Leaves(p, label) == pc[p] = label /\ pc'[p] # label

\* thread p has finished handler with some response
Answered(p, handler) == pc[p] = "done" /\ op[p] = handler

\* C1: a shared_download of a token that is in shared_links reads its entry
\* and tests it; an expired link never reaches send_file but goes to the
\* del; the shared_download that deletes the token answers 410 and the
\* token's entry is gone; a token answered 410 never comes back, and every
\* shared_download of it that begins afterwards answers 404 at the registry.
C1_ExpiredThenNotFound ==
  [][\A p \in Threads :
       /\ \A t \in DOMAIN shared_links :
            SharedLookup(p, t) => pc'[p] = "sd_get"
       /\ (Leaves(p, "sd_get") /\ share_id[p] \in DOMAIN shared_links)
            => /\ pc'[p] = "sd_expiry"
               /\ link_info'[p] = shared_links[share_id[p]]
       /\ (Leaves(p, "sd_expiry") /\ now > link_info[p].expires_at)
            => pc'[p] = "sd_del"
       /\ (Leaves(p, "sd_del") /\ share_id[p] \in DOMAIN shared_links)
            => /\ resp'[p] = Resp(410, "Sharing link has expired")
               /\ share_id[p] \notin DOMAIN shared_links'
       /\ \A t \in answered410 :
            /\ t \notin DOMAIN shared_links'
            /\ SharedLookup(p, t)
                 => resp'[p] = Resp(404, "Invalid or expired sharing link")
    ]_vars

\* a token was answered 410 and a later shared_download of it answered 404
C1_Witness ==
  \E p \in Threads :
    /\ Answered(p, "shared_download")
    /\ share_id[p] \in answered410
    /\ resp[p].status = 404

\* C2: a shared_download that reads the clock at or before the link's
\* expires_at (the instant now = expires_at included) goes on to send_file,
\* and when the target exists it answers with the file named at creation;
\* neither step changes shared_links, so the token stays resolvable.
C2_ActiveResolves ==
  /\ [](\A p \in Threads :
          (pc[p] \in {"sd_expiry", "sd_send"} /\ share_id[p] \in DOMAIN shared_links)
            => link_info[p] = shared_links[share_id[p]])
  /\ [][\A p \in Threads :
          /\ (Leaves(p, "sf_store"))
               => shared_links'[share_id[p]].filename = filename[p]
          /\ (Leaves(p, "sd_expiry") /\ now <= link_info[p].expires_at)
               => /\ pc'[p] = "sd_send"
                  /\ shared_links' = shared_links
          /\ (Leaves(p, "sd_send") /\ link_info[p].filename \in DOMAIN fs)
               => /\ resp'[p] = Attachment(link_info[p].filename,
                                           fs[link_info[p].filename])
                  /\ shared_links' = shared_links
                  /\ fs' = fs
     ]_vars

\* at the instant now = expires_at two downloads of one token both got the file
C2_Witness ==
  \E p, q \in Threads :
    /\ p # q
    /\ Answered(p, "shared_download") /\ Answered(q, "shared_download")
    /\ share_id[p] = share_id[q]
    /\ resp[p].status = 200 /\ resp[q].status = 200
    /\ share_id[p] \in DOMAIN shared_links
    /\ now = shared_links[share_id[p]].expires_at
    /\ resp[p].name = shared_links[share_id[p]].filename

\* C3: shared_download of a token uuid4 never returned answers 404 at the
\* registry and changes neither shared_links nor the stored files.
C3_UnknownToken ==
  [][\A p \in Threads, t \in Tokens :
       (SharedLookup(p, t) /\ t \notin issued)
         => /\ pc'[p] = "done"
            /\ resp'[p] = Resp(404, "Invalid or expired sharing link")
            /\ shared_links' = shared_links
            /\ fs' = fs
    ]_vars

\* a never-issued token was answered 404
C3_Witness ==
  \E p \in Threads :
    /\ Answered(p, "shared_download")
    /\ share_id[p] \notin issued
    /\ share_id[p] # NoToken
    /\ resp[p].status = 404

\* C4: a step that removes a stored file leaves shared_links unchanged; a
\* shared_download whose link passed the registry checks and whose file is
\* gone answers 404 "File not found" from send_file, and leaves shared_links
\* unchanged.
C4_StaleReference ==
  [][/\ (\E n \in DOMAIN fs : n \notin DOMAIN fs') => shared_links' = shared_links
     /\ \A p \in Threads :
          /\ Leaves(p, "del_remove") => shared_links' = shared_links
          /\ (Leaves(p, "sd_send") /\ link_info[p].filename \notin DOMAIN fs)
               => /\ resp'[p] = Resp(404, "File not found")
                  /\ shared_links' = shared_links
    ]_vars

\* a link to a deleted file was answered 404 by send_file and is still there
C4_Witness ==
  \E p \in Threads :
    /\ Answered(p, "shared_download")
    /\ resp[p] = Resp(404, "File not found")
    /\ share_id[p] \in DOMAIN shared_links
    /\ shared_links[share_id[p]].filename \notin DOMAIN fs
    /\ \E q \in Threads : Answered(q, "delete_file")
                            /\ resp[q] = Redirect("deleted successfully")

\* C5: every entry of shared_links has expires_at = created_at + 7 days.
C5_ExactTTL ==
  \A t \in DOMAIN shared_links :
    /\ shared_links[t].expires_at = shared_links[t].created_at + TTL
    /\ shared_links[t].expires_at > shared_links[t].created_at

\* C6: the name an upload saves under is not in the upload folder, and two
\* uploads in progress have chosen different names.
C6_NeverOverwrites ==
  /\ [](\A p, q \in Threads :
          (p # q /\ pc[p] = "up_save" /\ pc[q] = "up_save")
            => filename[p] # filename[q])
  /\ [][\A p \in Threads :
          Leaves(p, "up_save") => filename[p] \notin DOMAIN fs]_vars

\* C7: share_file of a name that is not in the upload folder answers with the
\* redirect to the list and leaves shared_links unchanged; every step that
\* adds an entry is the store of a share_file that passed the check and
\* answers with the share page.
C7_MissingFileNoLink ==
  /\ [](\A p \in Threads :
          pc[p] \in {"sf_created", "sf_expires", "sf_store"}
            => filename[p] \in StoredNames /\ op[p] = "share_file")
  /\ [][/\ \A p \in Threads, name \in StoredNames :
             (ShareExists(p, name) /\ name \notin DOMAIN fs)
               => /\ pc'[p] = "done"
                  /\ resp'[p] = Redirect("File not found")
                  /\ shared_links' = shared_links
        /\ \A t \in DOMAIN shared_links' :
             t \notin DOMAIN shared_links
               => \E p \in Threads :
                    /\ Leaves(p, "sf_store")
                    /\ share_id[p] = t
                    /\ resp'[p].status = 200
     ]_vars

\* share_file of a missing file was answered by the redirect, no link added
C7_Witness ==
  \E p \in Threads :
    /\ Answered(p, "share_file")
    /\ resp[p] = Redirect("File not found")
    /\ shared_links = EmptyDict
    /\ nreq = 1

\* C8: the store of share_file adds exactly one entry, under a token that is
\* not in shared_links, and leaves every other entry unchanged; two
\* share_file requests in progress hold different tokens.
C8_OneFreshEntry ==
  /\ [](\A p, q \in Threads :
          (p # q /\ pc[p] \in {"sf_created", "sf_expires", "sf_store"}
                 /\ pc[q] \in {"sf_created", "sf_expires", "sf_store"})
            => share_id[p] # share_id[q])
  /\ [][\A p \in Threads :
          Leaves(p, "sf_store")
            => /\ share_id[p] \notin DOMAIN shared_links
               /\ DOMAIN shared_links' = DOMAIN shared_links \cup {share_id[p]}
               /\ shared_links'[share_id[p]] = NewLink(p)
               /\ \A t \in DOMAIN shared_links :
                    shared_links'[t] = shared_links[t]
     ]_vars

\* two links to the same file coexist
C8_Witness ==
  \E t, u \in DOMAIN shared_links :
    /\ t # u
    /\ shared_links[t].filename = shared_links[u].filename

\* C9: every finished shared_download answered 200, 404 or 410.
C9_NoUnhandledException ==
  \A p \in Threads :
    Answered(p, "shared_download") => resp[p].status \in {200, 404, 410}

\* C10: the step that deletes an expired token keeps every other entry as it
\* is; an entry leaves shared_links only in the step of a shared_download of
\* its own token that answers 410; and the store of a share_file running at
\* the same time puts its entry in.
C10_RemovesOnlyItsOwn ==
  [][/\ \A p \in Threads :
          /\ Leaves(p, "sd_del")
               => \A t \in (DOMAIN shared_links) \ {share_id[p]} :
                    /\ t \in DOMAIN shared_links'
                    /\ shared_links'[t] = shared_links[t]
          /\ Leaves(p, "sf_store")
               => /\ share_id[p] \in DOMAIN shared_links'
                  /\ shared_links'[share_id[p]] = NewLink(p)
     /\ \A t \in DOMAIN shared_links :
          t \notin DOMAIN shared_links'
            => \E p \in Threads :
                 /\ Leaves(p, "sd_del")
                 /\ share_id[p] = t
                 /\ resp'[p].status = 410
    ]_vars

\* an expired token was answered 410 and another link is in shared_links
C10_Witness ==
  \E p \in Threads :
    /\ Answered(p, "shared_download")
    /\ resp[p].status = 410
    /\ \E t \in DOMAIN shared_links : t # share_id[p]

\* ---------------------------------------------------------------------
\* Uploads under client-chosen names.  file.filename is the name the
\* client sent (line 51); the handler passes it to
\* _generate_unique_filename unchanged (line 68; secure_filename is
\* imported at line 6 and never called) and joins the result to the
\* upload folder (line 69).

MaxNameLen == 3

NameChars == { "a", ".", "/" }

\* every non-empty name of at most MaxNameLen characters
ClientNames == UNION { [1..n -> NameChars] : n \in 1..MaxNameLen }

\* the size and the digest play no part in the shape of the stored name:
\* every file has size 1 and every digest is the first one
NextNames ==
  \/ \E p \in Threads, o \in ClientNames :
        UploadRequest(p, TRUE, o, 1, 1)
  \/ \E p \in Threads : UploadSave(p)

SpecNames == Init /\ [][NextNames]_vars

\* the components of a path: the maximal runs of characters between
\* directory separators
IsComponent(s, i, j) ==
  /\ i <= j
  /\ \A k \in i..j : s[k] # "/"
  /\ (i = 1 \/ s[i - 1] = "/")
  /\ (j = Len(s) \/ s[j + 1] = "/")

HasSeparator(s) == \E i \in 1..Len(s) : s[i] = "/"

HasTraversal(s) ==
  \E i \in 1..Len(s), j \in 1..Len(s) :
    /\ IsComponent(s, i, j)
    /\ SubSeq(s, i, j) = << ".", "." >>

\* os.path.join(upload_folder, name) stays directly inside upload_folder
InsideFolder(name) == ~HasSeparator(name) /\ ~HasTraversal(name)

C12_StoredNameSafe ==
  /\ \A p \in Threads : pc[p] = "up_save" => InsideFolder(filename[p])
  /\ \A n \in DOMAIN fs : InsideFolder(n)

\* C13: delete_file of a name that is not stored answers with the redirect
\* "File not found" and leaves the stored files as they are; its os.remove
\* of a stored file removes that file and no other; and every delete_file,
\* also one whose file was removed by another delete_file in the meantime,
\* ends in a redirect.
C13_DeleteFile ==
  /\ [](\A p \in Threads : Answered(p, "delete_file") => resp[p].status = 302)
  /\ [][\A p \in Threads :
          /\ \A name \in StoredNames :
               (DeleteExists(p, name) /\ name \notin DOMAIN fs)
                 => /\ resp'[p] = Redirect("File not found")
                    /\ pc'[p] = "done"
                    /\ fs' = fs
          /\ Leaves(p, "del_remove")
               => /\ resp'[p].status = 302
                  /\ pc'[p] = "done"
                  /\ fs' = DictDel(fs, filename[p])
     ]_vars

\* two overlapping delete_file calls of one file have both answered, the
\* first with success and the second after os.remove failed, and another
\* file is still stored
C13_Witness ==
  \E p \in Threads, q \in Threads :
    /\ Answered(p, "delete_file")
    /\ resp[p] = Redirect("deleted successfully")
    /\ Answered(q, "delete_file")
    /\ resp[q] = Redirect("Error deleting file")
    /\ fs # EmptyDict

\* C14: every list_files request answers 200, also when a delete_file
\* removes one of the listed files between os.listdir and os.path.getsize.
C14_ListAlways200 ==
  \A p \in Threads : Answered(p, "list_files") => resp[p].status = 200

\* C15: an entry of shared_links keeps its fields for as long as it is
\* there, and it leaves shared_links only in the del step of a
\* shared_download of its own token taken when now > expires_at; so an
\* expired entry that nobody resolves stays, with or without its file.
C15_LazyEviction ==
  [][\A t \in DOMAIN shared_links :
       /\ t \in DOMAIN shared_links' => shared_links'[t] = shared_links[t]
       /\ t \notin DOMAIN shared_links'
            => \E p \in Threads :
                 /\ Leaves(p, "sd_del")
                 /\ op[p] = "shared_download"
                 /\ share_id[p] = t
                 /\ now > shared_links[t].expires_at
    ]_vars

\* an entry is still in shared_links after its expiry although its file
\* was deleted
C15_Witness ==
  \E t \in DOMAIN shared_links :
    /\ now > shared_links[t].expires_at
    /\ shared_links[t].filename \notin DOMAIN fs
    /\ \E q \in Threads :
         /\ Answered(q, "delete_file")
         /\ resp[q] = Redirect("deleted successfully")

\* C16, as stated: a shared_download returns the file only at a time that
\* is not after the link's expires_at, and never once some shared_download
\* of the same token has answered 410.
C16_NoFileAfterExpiry ==
  [][\A p \in Threads :
       (Leaves(p, "sd_send") /\ resp'[p].status = 200)
         => /\ ~(now > link_info[p].expires_at)
            /\ share_id[p] \notin answered410
    ]_vars

\* C16, amended: a shared_download whose expiry test (line 147) reads a
\* clock after expires_at goes to the del and never returns the file; the
\* file is returned only by a request that passed that test; and a
\* shared_download that begins after a 410 for its token answers 404.
C16_ForwardOnly ==
  [][\A p \in Threads :
       /\ (Leaves(p, "sd_expiry") /\ now > link_info[p].expires_at)
            => pc'[p] = "sd_del"
       /\ Leaves(p, "sd_del") => (pc'[p] = "done" /\ resp'[p].status # 200)
       /\ (pc'[p] = "sd_send" /\ pc[p] # "sd_send")
            => (pc[p] = "sd_expiry" /\ ~(now > link_info[p].expires_at))
       /\ (pc'[p] = "done" /\ op'[p] = "shared_download"
             /\ resp'[p].status = 200)
            => \/ pc[p] = "sd_send"
               \/ (pc[p] = "done" /\ op[p] = op'[p] /\ resp[p] = resp'[p])
       /\ \A t \in Tokens :
            (SharedLookup(p, t) /\ t \in answered410)
              => /\ pc'[p] = "done"
                 /\ resp'[p] = Resp(404, "Invalid or expired sharing link")
    ]_vars

\* a shared_download that passed the expiry test in time has returned the
\* file after another shared_download of the same token answered 410
C16_Witness ==
  \E p \in Threads, q \in Threads :
    /\ Answered(p, "shared_download")
    /\ resp[p].status = 200
    /\ share_id[p] \in answered410
    /\ Answered(q, "shared_download")
    /\ resp[q].status = 410
    /\ share_id[q] = share_id[p]

\* the steps of share_file after its existence check
InShare == { "sf_created", "sf_expires", "sf_store" }

\* C17, as stated: at the step of share_file that inserts the entry, the
\* file the entry names is in the upload folder.
C17_PresentAtInsertion ==
  [][\A p \in Threads : Leaves(p, "sf_store") => filename[p] \in DOMAIN fs
    ]_vars

\* C17, amended: the file is in the upload folder at the existence check
\* (line 115) of the share_file that inserts the entry, the entry names that
\* file, and between the check and the insertion the file disappears only
\* by the os.remove of a concurrent delete_file of that name.
C17_PresentAtCheck ==
  [][\A p \in Threads :
       /\ (pc'[p] = "sf_created" /\ pc[p] # "sf_created")
            => (filename'[p] \in DOMAIN fs /\ fs' = fs)
       /\ (pc[p] \in InShare /\ pc'[p] \in InShare)
            => filename'[p] = filename[p]
       /\ Leaves(p, "sf_store")
            => /\ share_id[p] \in DOMAIN shared_links'
               /\ shared_links'[share_id[p]].filename = filename[p]
       /\ (pc[p] \in InShare /\ filename[p] \in DOMAIN fs
             /\ filename[p] \notin DOMAIN fs')
            => \E q \in Threads \ {p} :
                 /\ Leaves(q, "del_remove")
                 /\ op[q] = "delete_file"
                 /\ filename[q] = filename[p]
    ]_vars

\* a share_file is about to insert its entry after a concurrent delete_file
\* removed the file
C17_Witness ==
  \E p \in Threads, q \in Threads :
    /\ pc[p] = "sf_store"
    /\ filename[p] \notin DOMAIN fs
    /\ Answered(q, "delete_file")
    /\ resp[q] = Redirect("deleted successfully")

\* the request of thread p takes this step
Stepping(p) == pc'[p] # pc[p] \/ resp'[p] # resp[p] \/ op'[p] # op[p]

\* C18: a step is taken by one request at most; a step that changes
\* shared_links is a step of a share_file or of a shared_download, and a
\* step that changes the stored files is a step of an upload or of a
\* delete_file.  So upload, download, delete_file and list_files leave
\* shared_links alone, and share_file, shared_download, download and
\* list_files leave the stored files alone.
C18_OwnOperations ==
  [][/\ \A p \in Threads, q \in Threads :
          (Stepping(p) /\ Stepping(q)) => p = q
     /\ shared_links' # shared_links
          => \E p \in Threads :
               Stepping(p) /\ op'[p] \in { "share_file", "shared_download" }
     /\ fs' # fs
          => \E p \in Threads :
               Stepping(p) /\ op'[p] \in { "upload", "delete_file" }
    ]_vars

\* with a file in the folder and a link stored by a share_file, a download
\* and a list_files have answered and the file and the link are still there
C18_Witness ==
  \E p \in Threads, q \in Threads :
    /\ Answered(p, "download")
    /\ resp[p].status = 200
    /\ Answered(q, "list_files")
    /\ resp[q].status = 200
    /\ shared_links # EmptyDict
    /\ fs # EmptyDict

====
